---- MODULE Spec2Model ----
(***************************************************************************)
(* A model of the zCore regression-test runners (scripts/*.py,             *)
(* auto-test/local_core-test.py, libc-tests.py).                           *)
(*                                                                         *)
(* Text is modelled character by character: a string is a sequence of      *)
(* one-character strings, a file is the sequence of its lines (each line   *)
(* with its line terminator) or, where the code rewrites the file in       *)
(* place, the flat sequence of its characters.                             *)
(*                                                                         *)
(* One run of one runner is one behaviour: Init chooses the runner (prog)  *)
(* and its input files, the actions are the statements of that runner and  *)
(* the steps of the environment it supervises (the session's output, its   *)
(* exit, the passing of the deadline).                                     *)
(***************************************************************************)
EXTENDS Integers, Sequences, FiniteSets, TLC

(***************************************************************************)
(* Bounds of the model.                                                    *)
(***************************************************************************)
\* lines a session may emit before it exits, hangs or is abandoned; lines
\* the device of the serial runner sends during a run
MaxOut == 2
\* lines of a manifest file in the manifest-loading specification
MaxManifest == 2
\* lines of a log in the classification specification
MaxLog == 2
\* lines of a log in the specification of the statistic parser
MaxStat == 3

(***************************************************************************)
(* Strings (Python str) as sequences of characters.                        *)
(***************************************************************************)
Range(s) == {s[i] : i \in 1..Len(s)}

RECURSIVE Concat(_)
\* ''.join(parts)
Concat(parts) ==
    IF parts = <<>> THEN <<>> ELSE Head(parts) \o Concat(Tail(parts))

\* s[n:]
Drop(s, n) == SubSeq(s, n + 1, Len(s))

\* s.startswith(p)
StartsWith(s, p) == Len(s) >= Len(p) /\ SubSeq(s, 1, Len(p)) = p

\* s.endswith(p)
EndsWith(s, p) ==
    Len(s) >= Len(p) /\ SubSeq(s, Len(s) - Len(p) + 1, Len(s)) = p

\* the positions at which p occurs in s
Occurrences(s, p) ==
    {i \in 1..(Len(s) - Len(p) + 1) : SubSeq(s, i, i + Len(p) - 1) = p}

\* p in s   /   re.search(p, s) for a pattern p without metacharacters
Contains(s, p) == Occurrences(s, p) # {}

\* position of the first occurrence of p in s, 0 when there is none
Find(s, p) ==
    IF Occurrences(s, p) = {} THEN 0
    ELSE CHOOSE i \in Occurrences(s, p) : \A j \in Occurrences(s, p) : i <= j

Whitespace == {" ", "\n", "\r", "\t"}

RECURSIVE LStrip(_)
LStrip(s) ==
    IF s # <<>> /\ Head(s) \in Whitespace THEN LStrip(Tail(s)) ELSE s

RECURSIVE RStrip(_)
RStrip(s) ==
    IF s # <<>> /\ s[Len(s)] \in Whitespace
    THEN RStrip(SubSeq(s, 1, Len(s) - 1)) ELSE s

\* s.strip()
Strip(s) == RStrip(LStrip(s))

RECURSIVE Split(_, _)
\* s.split(sep) for a one-character separator: "a:b:" gives <<"a","b","">>
Split(s, sep) ==
    IF sep \notin Range(s) THEN <<s>>
    ELSE LET i == CHOOSE k \in 1..Len(s) :
                      s[k] = sep /\ \A j \in 1..(k - 1) : s[j] # sep
         IN  <<SubSeq(s, 1, i - 1)>> \o Split(Drop(s, i), sep)

RECURSIVE SplitLines(_)
\* the lines of a text, each with its "\n"; a last line may lack it
SplitLines(text) ==
    IF text = <<>> THEN <<>>
    ELSE IF "\n" \notin Range(text) THEN <<text>>
    ELSE LET i == CHOOSE k \in 1..Len(text) :
                      text[k] = "\n" /\ \A j \in 1..(k - 1) : text[j] # "\n"
         IN  <<SubSeq(text, 1, i)>> \o SplitLines(Drop(text, i))

RECURSIVE SetToSeqs(_)
\* every ordering of a finite set: the orders in which a Python set may be
\* iterated
SetToSeqs(S) ==
    IF S = {} THEN {<<>>}
    ELSE UNION {{<<x>> \o t : t \in SetToSeqs(S \ {x})} : x \in S}

\* sequences over S of length at most n
SeqsUpTo(S, n) == UNION {[1..k -> S] : k \in 0..n}

(***************************************************************************)
(* The texts of the model: case identifiers, console lines, markers.       *)
(***************************************************************************)
KeyA == <<"a">>
KeyB == <<"b">>
NL == <<"\n">>

\* 'finished!' and 'panicked', the patterns handed to expect
Finished == <<"f", "i", "n", "i", "s", "h", "e", "d", "!">>
Panicked == <<"p", "a", "n", "i", "c", "k", "e", "d">>

\* '[       OK ]' and '[  FAILED  ]', the prefixes of the result lines
OkMarker == <<"[", " ", " ", " ", " ", " ", " ", " ", "O", "K", " ", "]">>
FailedMarker == <<"[", " ", " ", "F", "A", "I", "L", "E", "D", " ", " ", "]">>

\* the result lines the built-in test runner prints for case k
OkLine(k) == OkMarker \o <<" ">> \o k \o <<" ", "(", "1", ")", "\n">>
FailedLine(k) == FailedMarker \o <<" ">> \o k \o <<" ", "(", "1", ")", "\n">>
FinishedLine == Finished \o NL
PanickedLine == Panicked \o NL
\* a line of a panic message that quotes the success marker
PanickedFinishedLine == Panicked \o <<" ">> \o Finished \o NL
NoiseLine == <<"o", "k", "\n">>

(***************************************************************************)
(* Input files of the runners.                                             *)
(***************************************************************************)
LineA == KeyA \o NL
LineB == KeyB \o NL
\* the same case with surrounding blanks, which strip() removes
LineAPadded == <<" ">> \o KeyA \o <<" ", "\n">>
\* a negative entry of zircon/testcases.txt
LineNegB == <<"-">> \o KeyB \o NL

\* zircon/testcases-all.txt (core runners), the allow file (baremetal libc)
CaseFilePool == {<<LineA, LineB>>, <<LineB, LineAPadded, LineA>>, <<LineA>>}
\* testcases-failed-*.txt, the fail file, the allow-failed file
CheckFilePool == {<<>>, <<LineB>>, <<LineB, LineB, LineA>>}

Cmdline == <<"c", "m", "d", "l", "i", "n", "e">>
\* the cmdline line of rboot.conf: cmdline=L:t=o:  (fields separated by ":")
CmdlineLine == Cmdline \o <<"=", "L", ":", "t", "=", "o", ":", "\n">>
CommentLine == <<"#", "c", "\n">>
BlankLine == NL
PlainLine == <<"p", "=", "1", "\n">>
SpacedLine == <<"k", " ", "v", "\n">>

\* contents of rboot.conf before the run
DocPool ==
    { CmdlineLine,
      CommentLine \o BlankLine \o PlainLine \o CmdlineLine,
      CmdlineLine \o PlainLine,
      SpacedLine \o CmdlineLine,
      \* a document without a cmdline line
      PlainLine }

SuiteS == <<"S">>
SubX == <<"x">>
SubY == <<"y">>
\* data["CoreTests"] of auto-test/work/temp-test.json
CoreTestsPool ==
    { <<[TestCaseName |-> SuiteS, TestArray |-> <<SubX, SubY>>]>>,
      <<[TestCaseName |-> SuiteS, TestArray |-> <<SubX, SubX>>]>>,
      <<[TestCaseName |-> SuiteS, TestArray |-> <<SubX>>],
        [TestCaseName |-> SuiteS, TestArray |-> <<>>]>> }

(***************************************************************************)
(* State.                                                                  *)
(***************************************************************************)
VARIABLES
    prog,        \* the runner this run executes
    pc,          \* the statement the runner is at
    caseFile,    \* lines of the manifest of cases to run
    checkFile,   \* lines of the second manifest (exception, fail, allow, check)
    coreTests,   \* local_core: data["CoreTests"]
    rbootconf,   \* local_core: the characters of rboot.conf
    check_case,  \* the run set computed from the manifests
    todo,        \* the cases the per-case loop has still to run, in order
    cur,         \* the case of the current iteration
    launched,    \* the cases a Session was started for, in order of start
    live,        \* the Sessions (indices into launched) whose process runs
    buf,         \* what the watcher has read from the current Session
    nread,       \* number of lines read from the current Session
    index,       \* the value expect returned, -1 while it has not
    outcomes,    \* the Outcome records produced, <<case, tag>>, in order
    outFile,     \* OUTPUT_FILE / LogFile: the lines written and flushed
    pend,        \* lines held in the buffers of the files of earlier Tee objects
    echo,        \* the lines that reached the real stdout
    tees,        \* number of Tee objects created
    resultFile,  \* RESULT_FILE: the characters written
    passed,      \* passed / passed_case
    failed,      \* failed / failed_case
    timeout,     \* timeout
    passedTxt,   \* core runners: the list `passed` (characters of the OK lines)
    failedTxt,   \* core runners: the list `failed`
    summary,     \* the sets printed in the final summary, <<>> before it
    tmpFile,     \* serial runner: the lines of TMP_FILE
    netOut,      \* net runner: the lines of OUTPUT_NET
    expired,     \* the Sessions (indices into launched) whose deadline passed
                 \* while their output held no success and no failure marker
    exitCode     \* exit status of the runner, "running" until it ends

vars ==
    <<prog, pc, caseFile, checkFile, coreTests, rbootconf, check_case, todo,
      cur, launched, live, buf, nread, index, outcomes, outFile, pend, echo,
      tees, resultFile, passed, failed, timeout, passedTxt, failedTxt,
      summary, tmpFile, netOut, expired, exitCode>>

inputVars == <<prog, caseFile, checkFile, coreTests>>
serialVars == <<tmpFile, netOut>>
teeVars == <<outFile, pend, echo, tees>>
setVars == <<passed, failed, timeout, passedTxt, failedTxt, summary>>

PexpectCaseProgs == {"local_core", "baremetal_core", "unix_core", "loader"}
PexpectProgs == PexpectCaseProgs \cup {"core"}
TeeProgs == {"baremetal_core", "unix_core", "core"}

(***************************************************************************)
(* pexpect: the pattern list of child.expect and the search of the buffer. *)
(***************************************************************************)
Str(t) == [kind |-> "str", text |-> t]
EOF == [kind |-> "EOF", text |-> <<>>]
TIMEOUT == [kind |-> "TIMEOUT", text |-> <<>>]

\* the list handed to child.expect
ExpectList(p) ==
    IF p = "local_core" THEN <<Str(Finished), EOF, TIMEOUT>>
    ELSE IF p = "loader" THEN <<EOF, Str(Panicked), TIMEOUT>>
    ELSE <<Str(Finished), Str(Panicked), EOF, TIMEOUT>>

\* the (0-based) index expect returns for EOF or TIMEOUT
IndexOf(list, kind) == (CHOOSE i \in 1..Len(list) : list[i].kind = kind) - 1

\* the search of the buffer after new data: of the string patterns that
\* occur in the buffer the one whose match starts first, the earlier entry of
\* the list on a tie; -1 when none occurs
SearchBuffer(list, b) ==
    LET hits == {i \in 1..Len(list) :
                    list[i].kind = "str" /\ Contains(b, list[i].text)}
        at(i) == Find(b, list[i].text)
    IN  IF hits = {} THEN -1
        ELSE (CHOOSE i \in hits :
                \A j \in hits : at(i) < at(j) \/ (at(i) = at(j) /\ i <= j)) - 1

\* the text recorded for each index: result = [...][index], or the word
\* written to the Result file by local_core
ResultNames(p) ==
    IF p = "local_core" THEN <<"successed", "EOF", "TIMEOUT">>
    ELSE IF p = "loader" THEN <<"successed", "failed", "10s_timeout">>
    ELSE <<"FINISHED", "PANICKED", "EOF", "TIMEOUT">>

(***************************************************************************)
(* Manifests.                                                              *)
(***************************************************************************)
RECURSIVE StripAll(_)
\* [case.strip() for case in tcf.readlines()]
StripAll(lines) ==
    IF lines = <<>> THEN <<>>
    ELSE <<Strip(Head(lines))>> \o StripAll(Tail(lines))

\* set([case.strip() for case in tcf.readlines()])
LoadCases(lines) == Range(StripAll(lines))

\* a difference that takes only the first line of the exception manifest
RunSetFirstException(allLines, excLines) ==
    LoadCases(allLines)
    \ (IF excLines = <<>> THEN {} ELSE {Strip(excLines[1])})

\* check_case = all_case - exception_case
RunSet(allLines, excLines) == LoadCases(allLines) \ LoadCases(excLines)

RECURSIVE CaseIds(_)
\* the identifiers name+"."+i in the order of the two nested loops
CaseIds(tests) ==
    IF tests = <<>> THEN <<>>
    ELSE LET o == Head(tests)
         IN  [k \in 1..Len(o.TestArray) |->
                 o.TestCaseName \o <<".">> \o o.TestArray[k]]
             \o CaseIds(Tail(tests))

\* core-tests.py: the lines of testcases.txt not starting with '-'
Positive(lines) == SelectSeq(lines, LAMBDA l : ~StartsWith(l, <<"-">>))
\* the cases the single session of core-tests.py is asked to run
FilterKeys(lines) == {Strip(l) : l \in Range(Positive(lines))}

(***************************************************************************)
(* ConfigMutator: the in-place rewrite of rboot.conf (fileinput, inplace). *)
(***************************************************************************)
\* a rewrite that adds the identifier to the cmdline line as a new field
RewriteAppend(line, id) ==
    IF StartsWith(line, Cmdline) THEN RStrip(line) \o id \o <<":">>
    ELSE line

\* what the loop body prints into the file for one line of it
RewriteLine(line, id) ==
    IF Contains(line, <<"#">>) THEN <<>>
    ELSE IF Contains(line, <<" ">>) THEN <<>>
    ELSE IF StartsWith(line, Cmdline)
    THEN LET l == Split(line, ":")
             \* index = len(l)-2; Python counts a negative index from the end
             pos == IF Len(l) >= 2 THEN Len(l) - 1 ELSE Len(l)
             l2 == [l EXCEPT ![pos] = id]
             l3 == SubSeq(l2, 1, Len(l2) - 1)
         IN  Concat([k \in 1..Len(l3) |-> l3[k] \o <<":">>])
    ELSE line

\* the file after the rewrite for case id
ApplyConfig(doc, id) ==
    LET ls == SplitLines(doc)
    IN  Concat([k \in 1..Len(ls) |-> RewriteLine(ls[k], id)])

(***************************************************************************)
(* OutputClassifier of the core runners.                                   *)
(***************************************************************************)
Esc == "ESC"
\* the character classes of ansi_escape = \x1B[@-_][0-?]*[ -/]*[@-~]
Upper ==
    {"A", "B", "C", "D", "E", "F", "G", "H", "I", "J", "K", "L", "M", "N",
     "O", "P", "Q", "R", "S", "T", "U", "V", "W", "X", "Y", "Z"}
Lower ==
    {"a", "b", "c", "d", "e", "f", "g", "h", "i", "j", "k", "l", "m", "n",
     "o", "p", "q", "r", "s", "t", "u", "v", "w", "x", "y", "z"}
ClassIntro == {"@", "[", "\\", "]", "^", "_"} \cup Upper
ClassParam ==
    {"0", "1", "2", "3", "4", "5", "6", "7", "8", "9",
     ":", ";", "<", "=", ">", "?"}
ClassInter ==
    {" ", "!", "\"", "#", "$", "%", "&", "'", "(", ")", "*", "+", ",", "-",
     ".", "/"}
\* (the grave accent, also of this class, is left out of the alphabet)
ClassFinal == ClassIntro \cup Lower \cup {"{", "|", "}", "~"}

RECURSIVE SkipWhile(_, _)
\* s without its longest prefix of characters of class
SkipWhile(s, class) ==
    IF s # <<>> /\ Head(s) \in class THEN SkipWhile(Tail(s), class) ELSE s

\* the rest of s after a control sequence starting at its head; s itself
\* when none starts there
AfterEscape(s) ==
    IF Len(s) >= 2 /\ s[1] = Esc /\ s[2] \in ClassIntro
    THEN LET r == SkipWhile(SkipWhile(Drop(s, 2), ClassParam), ClassInter)
         IN  IF r # <<>> /\ Head(r) \in ClassFinal THEN Tail(r) ELSE s
    ELSE s

\* a classifier that matches the lines as they are in the file
NoStrip(s) == s

RECURSIVE StripAnsi(_)
\* ansi_escape.sub('', line)
StripAnsi(s) ==
    IF s = <<>> THEN <<>>
    ELSE IF AfterEscape(s) # s THEN StripAnsi(AfterEscape(s))
    ELSE <<Head(s)>> \o StripAnsi(Tail(s))

\* line[13:].split(' ')[0]
CaseKey(line) == Split(Drop(line, 13), " ")[1]
IsOkLine(line) == StartsWith(line, OkMarker)
IsFailedLine(line) ==
    /\ ~IsOkLine(line)
    /\ StartsWith(line, FailedMarker)
    /\ EndsWith(line, <<")", "\n">>)

\* the lines of the output file as the loop sees them, control sequences
\* removed
CleanLines(chunks) ==
    LET ls == SplitLines(Concat(chunks))
    IN  [k \in 1..Len(ls) |-> StripAnsi(ls[k])]

\* the lines added to `passed` and to `failed`
OkLines(chunks) == SelectSeq(CleanLines(chunks), IsOkLine)
FailedLines(chunks) == SelectSeq(CleanLines(chunks), IsFailedLine)
\* passed_case, and failed_case of baremetal-core-tests.py
PassedCase(chunks) == {CaseKey(l) : l \in Range(OkLines(chunks))}
FailedCase(chunks) == {CaseKey(l) : l \in Range(FailedLines(chunks))}

(***************************************************************************)
(* Tee: the logfile of the core runners.  Every Tee keeps the sys.stdout   *)
(* it found (the Tee of the case before) and makes itself sys.stdout, so   *)
(* the Tee objects form a chain down to the real stdout.                   *)
(***************************************************************************)
Copies(n, x) == [i \in 1..n |-> x]

\* child.logfile.write(data); child.logfile.flush(): the newest Tee writes
\* to its file and flushes it; each earlier Tee of the chain writes to its
\* own file object, which nobody flushes: its buffer reaches the file when
\* it fills or when the interpreter exits.  The outputs modelled here are
\* shorter than that buffer, so these copies wait in pend until the exit;
\* the real stdout gets the data
LogChunk(data) ==
    IF prog \in TeeProgs
    THEN /\ outFile' = Append(outFile, data)
         /\ pend' = pend \o Copies(tees - 1, data)
         /\ echo' = Append(echo, data)
         /\ UNCHANGED tees
    ELSE /\ outFile' = Append(outFile, data)
         /\ UNCHANGED <<pend, echo, tees>>

\* print(text) while sys.stdout is the newest Tee: no flush
PrintLine(text) ==
    /\ pend' = pend \o Copies(tees, text)
    /\ echo' = Append(echo, text)
    /\ UNCHANGED <<outFile, tees>>

(***************************************************************************)
(* The runners built on pexpect.                                           *)
(***************************************************************************)
\* the lines the Session of the current case may write to its console: the
\* two markers, and result lines of the cases its test filter names (a
\* Session prints no result line of a case it was not asked to run)
SessionLines ==
    IF prog = "local_core" THEN {FinishedLine, NoiseLine}
    ELSE IF prog = "loader" THEN {PanickedLine, NoiseLine}
    ELSE IF prog = "core"
    THEN {OkLine(k) : k \in FilterKeys(caseFile)}
         \cup {FailedLine(k) : k \in FilterKeys(caseFile)}
         \cup {FinishedLine, PanickedLine}
    ELSE IF prog = "unix_core"
    THEN {OkLine(cur), FailedLine(cur), FinishedLine, PanickedLine,
          PanickedFinishedLine}
    ELSE {OkLine(cur), FailedLine(cur), FinishedLine, PanickedLine}

\* baremetal-core-tests.py, unix-core-tests.py: the manifests are read
LoadManifests ==
    /\ pc = "start"
    /\ prog \in {"baremetal_core", "unix_core"}
    /\ check_case' = RunSet(caseFile, checkFile)
    /\ todo' \in SetToSeqs(check_case')
    /\ pc' = "loop"
    /\ UNCHANGED <<inputVars, serialVars, expired, rbootconf, cur, launched, live, buf, nread,
                   index, outcomes, teeVars, resultFile, setVars, exitCode>>

\* local_core-test.py: the json is read, the two files are opened
LoadJson ==
    /\ pc = "start"
    /\ prog = "local_core"
    /\ todo' = CaseIds(coreTests)
    /\ pc' = "loop"
    /\ UNCHANGED <<inputVars, serialVars, expired, rbootconf, check_case, cur, launched, live,
                   buf, nread, index, outcomes, teeVars, resultFile, setVars,
                   exitCode>>

\* src/libc-tests.py: the lines of the case file are read and the Result
\* file is emptied; the loop skips the empty lines and the lines that start
\* with '#'
LoadLines ==
    /\ pc = "start"
    /\ prog = "loader"
    /\ todo' = SelectSeq(caseFile,
                         LAMBDA l : ~(l = NL \/ StartsWith(l, <<"#">>)))
    /\ resultFile' = <<>>
    /\ pc' = "loop"
    /\ UNCHANGED <<inputVars, serialVars, expired, rbootconf, check_case, cur, launched, live,
                   buf, nread, index, outcomes, teeVars, setVars, exitCode>>

\* a loop body that starts the Session first and leaves the configuration
\* as it was
LaunchFirst(p) ==
    IF p \in {"libc", "bm_libc", "find_failed", "rv64"} THEN "run"
    ELSE "spawn"

\* the first statement of the body of the per-case loop: the rewrite of
\* rboot.conf (local_core-test.py), the write of rboot.conf or script.sh
\* (the baremetal libc runners), the start of the Session (the others)
LoopBody(p) ==
    IF p = "local_core" THEN "mutate"
    ELSE IF p \in {"bm_libc", "find_failed", "rv64"} THEN "write"
    ELSE IF p = "libc" THEN "run"
    ELSE "spawn"

\* the head of the per-case loop: the next case, or the end of the loop
NextCase ==
    /\ pc = "loop"
    /\ prog \in PexpectCaseProgs
    /\ IF todo = <<>>
       THEN /\ pc' = IF prog \in {"local_core", "loader"}
                     THEN "done" ELSE "classify"
            /\ exitCode' = IF prog \in {"local_core", "loader"}
                           THEN "0" ELSE exitCode
            /\ UNCHANGED <<todo, cur>>
       ELSE /\ cur' = Head(todo)
            /\ todo' = Tail(todo)
            /\ pc' = LoopBody(prog)
            /\ UNCHANGED exitCode
    /\ UNCHANGED <<inputVars, serialVars, expired, rbootconf, check_case, launched, live, buf,
                   nread, index, outcomes, teeVars, resultFile, setVars>>

\* local_core-test.py: rboot.conf is rewritten in place for the case
Mutate ==
    /\ pc = "mutate"
    /\ rbootconf' = ApplyConfig(rbootconf, cur)
    /\ pc' = "spawn"
    /\ UNCHANGED <<inputVars, serialVars, expired, check_case, todo, cur, launched, live, buf,
                   nread, index, outcomes, teeVars, resultFile, setVars,
                   exitCode>>

\* the Sessions left running once `child` names the new Session: no runner
\* stops a Session; the object of the previous one is dropped by the
\* assignment, after the new process was started, and whether its finalizer
\* then ends the process is the interpreter's choice
AfterRebind(running) == {running, {}}

\* child = pexpect.spawn(...); child.logfile = ...
Spawn ==
    /\ pc = "spawn"
    /\ prog \in PexpectCaseProgs
    /\ launched' = Append(launched, cur)
    /\ \E rest \in AfterRebind(live) : live' = rest \cup {Len(launched) + 1}
    /\ tees' = IF prog \in TeeProgs THEN tees + 1 ELSE tees
    /\ buf' = <<>>
    /\ nread' = 0
    /\ index' = -1
    /\ pc' = "expect"
    /\ UNCHANGED <<inputVars, serialVars, expired, rbootconf, check_case, todo, cur, outcomes,
                   outFile, pend, echo, resultFile, setVars, exitCode>>

\* pexpect.spawn cannot start the command (it is not found or cannot be
\* executed) and raises; no runner catches the exception, so the interpreter
\* ends with a traceback and status 1, closing the files of the Tee objects
SpawnError ==
    /\ pc = "spawn"
    /\ prog \in PexpectCaseProgs
    /\ exitCode' = "1"
    /\ outFile' = outFile \o pend
    /\ pend' = <<>>
    /\ pc' = "aborted"
    /\ UNCHANGED <<inputVars, serialVars, expired, rbootconf, check_case, todo, cur, launched,
                   live, buf, nread, index, outcomes, echo, tees, resultFile,
                   setVars>>

\* core-tests.py: the test filter is built and the one Session started
SpawnFiltered ==
    /\ pc = "start"
    /\ prog = "core"
    /\ LET positive == Positive(caseFile)
           negative == [k \in 1..Len(SelectSeq(caseFile,
                                  LAMBDA l : StartsWith(l, <<"-">>))) |->
                          Drop(SelectSeq(caseFile,
                                  LAMBDA l : StartsWith(l, <<"-">>))[k], 1)]
           join(ls) == IF ls = <<>> THEN <<>>
                       ELSE Head(ls) \o
                            Concat([k \in 1..(Len(ls) - 1) |->
                                       <<",">> \o ls[k + 1]])
           text == join(positive)
                   \o (IF Len(negative) > 0
                       THEN <<",", "-">> \o join(negative) ELSE <<>>)
       IN  cur' = SelectSeq(text, LAMBDA c : c # "\n")
    /\ launched' = <<cur'>>
    /\ live' = {1}
    /\ tees' = tees + 1
    /\ buf' = <<>>
    /\ nread' = 0
    /\ index' = -1
    /\ pc' = "expect"
    /\ UNCHANGED <<inputVars, serialVars, expired, rbootconf, check_case, todo, outcomes, outFile,
                   pend, echo, resultFile, setVars, exitCode>>

\* expect reads one more line of the Session's output: the line is logged,
\* joins the buffer, and the buffer is searched
ReadLine ==
    /\ pc = "expect"
    /\ Len(launched) \in live
    /\ nread < MaxOut
    /\ \E l \in SessionLines :
          /\ buf' = buf \o l
          /\ LogChunk(l)
    /\ nread' = nread + 1
    /\ index' = SearchBuffer(ExpectList(prog), buf')
    /\ pc' = IF index' >= 0 THEN "result" ELSE "expect"
    /\ UNCHANGED <<inputVars, serialVars, expired, rbootconf, check_case, todo, cur, launched,
                   live, outcomes, resultFile, setVars, exitCode>>

\* the Session's process ends and expect meets the end of its stream
ReadEOF ==
    /\ pc = "expect"
    /\ live' = live \ {Len(launched)}
    /\ index' = IndexOf(ExpectList(prog), "EOF")
    /\ pc' = "result"
    /\ UNCHANGED <<inputVars, serialVars, expired, rbootconf, check_case, todo, cur, launched,
                   buf, nread, outcomes, teeVars, resultFile, setVars,
                   exitCode>>

\* the deadline passes while expect waits for more output
ReadTimeout ==
    /\ pc = "expect"
    /\ Len(launched) \in live
    /\ index' = IndexOf(ExpectList(prog), "TIMEOUT")
    /\ expired' = IF SearchBuffer(ExpectList(prog), buf) < 0
                  THEN expired \cup {Len(launched)} ELSE expired
    /\ pc' = "result"
    /\ UNCHANGED <<inputVars, serialVars, rbootconf, check_case, todo, cur, launched,
                   live, buf, nread, outcomes, teeVars, resultFile, setVars,
                   exitCode>>

\* a watcher that records nothing for a case whose deadline passed
RecordUnlessTimeout(case, tag) ==
    IF tag = "TIMEOUT" THEN outcomes ELSE Append(outcomes, <<case, tag>>)

\* str(num)
DecimalDigits == <<"0", "1", "2", "3", "4", "5", "6", "7", "8", "9">>
RECURSIVE NumStr(_)
NumStr(n) ==
    IF n < 10 THEN <<DecimalDigits[n + 1]>>
    ELSE NumStr(n \div 10) \o <<DecimalDigits[(n % 10) + 1]>>

\* src/libc-tests.py: the line appended to the Result file for the num-th
\* case, name + " " + word + "\n" with name = str(num) + " " + line
ResultLine(num, line, word) == NumStr(num) \o <<" ">> \o line \o <<" ", word, "\n">>

\* the Outcome of the case: result = [...][index], printed by
\* baremetal-core-tests.py and core-tests.py, written to the Result file by
\* local_core-test.py
RecordOutcome(case, tag) == Append(outcomes, <<case, tag>>)

Result ==
    /\ pc = "result"
    /\ prog \in PexpectProgs
    /\ outcomes' = RecordOutcome(cur, ResultNames(prog)[index + 1])
    /\ IF prog \in {"baremetal_core", "core"}
       THEN PrintLine(<<ResultNames(prog)[index + 1], "\n">>)
       ELSE UNCHANGED teeVars
    /\ resultFile' = IF prog = "loader"
                     THEN Append(resultFile,
                                 ResultLine(Len(launched), cur,
                                            ResultNames(prog)[index + 1]))
                     ELSE resultFile
    /\ pc' = IF prog = "core" THEN "classify" ELSE "loop"
    /\ UNCHANGED <<inputVars, serialVars, expired, rbootconf, check_case, todo, cur, launched,
                   live, buf, nread, index, setVars, exitCode>>

\* the output file is read back and its result lines are classified; the
\* result file is written
Classify ==
    /\ pc = "classify"
    /\ prog \in PexpectProgs
    /\ passedTxt' = Concat(OkLines(outFile))
    /\ failedTxt' = Concat(FailedLines(outFile))
    /\ passed' = PassedCase(outFile)
    /\ failed' = IF prog = "baremetal_core" THEN FailedCase(outFile) ELSE failed
    /\ resultFile' = resultFile \o passedTxt' \o failedTxt'
    /\ check_case' = IF prog = "core" THEN LoadCases(checkFile) ELSE check_case
    /\ pc' = "verdict"
    /\ UNCHANGED <<inputVars, serialVars, expired, rbootconf, todo, cur, launched, live, buf,
                   nread, index, outcomes, teeVars, timeout, summary,
                   exitCode>>

\* the condition of the final `if` of each core runner: whether it exits 1
CoreVerdictFails ==
    IF prog = "baremetal_core" THEN failed # {}
    ELSE IF prog = "unix_core" THEN failedTxt # <<>>
    ELSE check_case \ passed # {}

\* the final `if`: the exit status, and in baremetal-core-tests.py the
\* cases of failed_case printed under the heading; the interpreter then
\* closes the files of all Tee objects, which flushes them
Verdict ==
    /\ pc = "verdict"
    /\ prog \in PexpectProgs
    /\ exitCode' = IF CoreVerdictFails THEN "1" ELSE "0"
    /\ LET text == IF CoreVerdictFails
                   THEN <<"=== Failed cases ===", "\n">>
                   ELSE <<"All checked case passed!", "\n">>
       IN  /\ echo' = Append(echo, text)
           /\ outFile' = outFile \o pend \o Copies(tees, text)
           /\ pend' = <<>>
    /\ summary' = IF prog = "baremetal_core" /\ CoreVerdictFails
                  THEN <<[failed |-> failed]>> ELSE summary
    /\ pc' = "done"
    /\ UNCHANGED <<inputVars, serialVars, expired, rbootconf, check_case, todo, cur, launched,
                   live, buf, nread, index, outcomes, tees, resultFile,
                   passed, failed, timeout, passedTxt, failedTxt>>

(***************************************************************************)
(* The runners built on subprocess.run: scripts/libc-tests.py (libc),      *)
(* baremetal-libc-test.py (bm_libc), baremetal-libc-test-find-failed.py    *)
(* (find_failed), baremetal-test-riscv64.py (rv64).                        *)
(***************************************************************************)
SubProgs == {"libc", "bm_libc", "find_failed", "rv64"}
ConfProgs == {"bm_libc", "find_failed", "rv64"}

KeyStatic == <<"s", "-", "s", "t", "a", "t", "i", "c", ".", "e", "x", "e">>
StaticSuffix == <<"-", "s", "t", "a", "t", "i", "c", ".", "e", "x", "e">>

\* the order of sorted() on the identifiers of the model
KeyOrder == <<KeyA, KeyB, KeyStatic>>
\* sorted(cases)
Sorted(S) == SelectSeq(KeyOrder, LAMBDA k : k \in S)

\* what glob.glob returns (the '../rootfs' prefix already cut off)
GlobPool == {<<KeyB, KeyA>>, <<KeyA, KeyStatic>>, <<KeyB>>}

FailedWord == <<"f", "a", "i", "l", "e", "d">>
ErrorWord == <<"E", "R", "R", "O", "R">>
PanickedAt == Panicked \o <<" ", "a", "t">>

\* the list FAILED of each runner
FailedPatterns(p) ==
    IF p = "rv64" THEN <<PanickedAt, ErrorWord>>
    ELSE IF p \in {"d1", "net"} THEN <<FailedWord, ErrorWord, Panicked>>
    ELSE <<FailedWord, ErrorWord>>

\* the loop `for pattern in FAILED: if re.search(pattern, output)`
MatchesFailed(p, output) ==
    \E i \in 1..Len(FailedPatterns(p)) : Contains(output, FailedPatterns(p)[i])

\* what a run may leave in the captured stdout file
StdoutPool ==
    { <<>>, <<NoiseLine>>, <<FailedWord \o NL>>,
      <<NoiseLine, ErrorWord \o NL>>, <<PanickedAt \o NL>> }

\* the head of rboot.conf / script.sh, which ends with "ROOTPROC="
RbootTemplate == CommentLine \o PlainLine \o Cmdline \o <<"=", "R", "=">>
ScriptTemplate == <<"m", "a", "k", "e", " ", "R", "=">>

\* print(rboot+file+'?', file=f)  /  print(script+file, file=f)
ConfText(p, file) ==
    IF p = "rv64" THEN ScriptTemplate \o file \o NL
    ELSE RbootTemplate \o file \o <<"?">> \o NL

\* a loop that skips no entry
NothingSkipped(p, file, failLines) == FALSE

\* whether the loop body is skipped for this entry: a statically linked
\* test (libc), an entry of the fail file (bm_libc, rv64)
Skipped(p, file, failLines) ==
    IF p = "libc" THEN EndsWith(file, StaticSuffix)
    ELSE IF p \in {"bm_libc", "rv64"} THEN file \in LoadCases(failLines)
    ELSE FALSE

\* the build is run, the manifests are read
LoadSub ==
    /\ pc = "start"
    /\ prog \in SubProgs
    /\ IF prog = "libc"
       THEN /\ todo' = Sorted(Range(caseFile))
            /\ UNCHANGED check_case
       ELSE /\ check_case' = LoadCases(caseFile)
            /\ todo' \in SetToSeqs(check_case')
    /\ pc' = "loop"
    /\ UNCHANGED <<inputVars, serialVars, expired, rbootconf, cur, launched,
                   live, buf, nread, index, outcomes, teeVars, resultFile,
                   setVars, exitCode>>

\* the head of the loop over the paths / over allow_files
NextSub ==
    /\ pc = "loop"
    /\ prog \in SubProgs
    /\ IF todo = <<>>
       THEN /\ pc' = "report"
            /\ UNCHANGED <<todo, cur>>
       ELSE /\ todo' = Tail(todo)
            /\ IF Skipped(prog, Head(todo), checkFile)
               THEN UNCHANGED <<pc, cur>>
               ELSE /\ cur' = Head(todo)
                    /\ pc' = LoopBody(prog)
    /\ UNCHANGED <<inputVars, serialVars, expired, rbootconf, check_case,
                   launched, live, buf, nread, index, outcomes, teeVars,
                   resultFile, setVars, exitCode>>

\* rboot.conf / script.sh is written for the case and closed
WriteConf ==
    /\ pc = "write"
    /\ prog \in ConfProgs
    /\ rbootconf' = ConfText(prog, cur)
    /\ pc' = "run"
    /\ UNCHANGED <<inputVars, serialVars, expired, check_case, todo, cur,
                   launched, live, buf, nread, index, outcomes, teeVars,
                   resultFile, setVars, exitCode>>

\* subprocess.run starts the command; tee truncates the stdout file
RunStart ==
    /\ pc = "run"
    /\ launched' = Append(launched, cur)
    /\ live' = live \cup {Len(launched) + 1}
    /\ outFile' = <<>>
    /\ pc' = "wait"
    /\ UNCHANGED <<inputVars, serialVars, expired, rbootconf, check_case,
                   todo, cur, buf, nread, index, outcomes, pend, echo, tees,
                   resultFile, setVars, exitCode>>

\* the texts the command may have written to the captured stdout file
Captured == IF prog = "libc" THEN {<<>>} ELSE StdoutPool

\* the set a run that returned with status 0 is added to
\* ("passed" or "failed")
ClassOfOutput(p, output) ==
    IF p # "libc" /\ MatchesFailed(p, output) THEN "failed" ELSE "passed"

\* the command ends with status 0 before the deadline
RunOk ==
    /\ pc = "wait"
    /\ \E text \in Captured :
          /\ outFile' = text
          /\ IF ClassOfOutput(prog, Concat(text)) = "failed"
             THEN failed' = failed \cup {cur} /\ UNCHANGED passed
             ELSE passed' = passed \cup {cur} /\ UNCHANGED failed
    /\ live' = live \ {Len(launched)}
    /\ pc' = "loop"
    /\ UNCHANGED <<inputVars, serialVars, expired, rbootconf, check_case,
                   todo, cur, launched, buf, nread, index, outcomes, pend,
                   echo, tees, resultFile, timeout, passedTxt, failedTxt,
                   summary, exitCode>>

\* the command ends with another status: CalledProcessError
RunError ==
    /\ pc = "wait"
    /\ \E text \in Captured : outFile' = text
    /\ failed' = failed \cup {cur}
    /\ live' = live \ {Len(launched)}
    /\ pc' = "loop"
    /\ UNCHANGED <<inputVars, serialVars, expired, rbootconf, check_case,
                   todo, cur, launched, buf, nread, index, outcomes, pend,
                   echo, tees, resultFile, passed, timeout, passedTxt,
                   failedTxt, summary, exitCode>>

\* a runner that counts a run that met the deadline as failed
TimeoutAsFailed == "failed"

\* the set a run that met the deadline is added to
TimeoutClass == "timeout"

\* the deadline passes: subprocess.run kills the command and raises
\* TimeoutExpired
RunTimeout ==
    /\ pc = "wait"
    /\ \E text \in Captured :
          /\ outFile' = text
          /\ expired' = IF MatchesFailed(prog, Concat(text)) THEN expired
                        ELSE expired \cup {Len(launched)}
    /\ IF TimeoutClass = "timeout"
       THEN timeout' = timeout \cup {cur} /\ UNCHANGED failed
       ELSE failed' = failed \cup {cur} /\ UNCHANGED timeout
    /\ live' = live \ {Len(launched)}
    /\ pc' = "loop"
    /\ UNCHANGED <<inputVars, serialVars, rbootconf, check_case, todo, cur,
                   launched, buf, nread, index, outcomes, pend, echo, tees,
                   resultFile, passed, passedTxt, failedTxt, summary,
                   exitCode>>

\* a label line of the result report
Label(text) == <<text, "\n">>

\* print_cases(cases, file=f)
CaseLines(cases) == [k \in 1..Len(Sorted(cases)) |-> Sorted(cases)[k] \o NL]

\* the result report of scripts/libc-tests.py
ReportText(p, f, t) ==
    <<Label("PASSED:")>> \o CaseLines(p)
    \o <<Label("FAILED:")>> \o CaseLines(f)
    \o <<Label("TIMEOUT:")>> \o CaseLines(t)

\* the report: the result file (libc), the printed summary (the others),
\* whose fields hold what is printed: the number of passed cases and the
\* sets printed by name; find_failed prints the failed set but of the
\* timed-out files only their number, and it also rewrites the fail file
Report ==
    /\ pc = "report"
    /\ prog \in SubProgs
    /\ IF prog = "libc"
       THEN /\ resultFile' = ReportText(passed, failed, timeout)
            /\ UNCHANGED <<summary, checkFile>>
       ELSE /\ summary' = <<[passed |-> Cardinality(passed),
                             failed |-> failed,
                             timeout |-> IF prog = "find_failed"
                                         THEN {} ELSE timeout]>>
            /\ IF prog = "find_failed"
               THEN checkFile' \in SetToSeqs({c \o NL : c \in failed})
               ELSE UNCHANGED checkFile
            /\ UNCHANGED resultFile
    /\ pc' = "verdict"
    /\ UNCHANGED <<prog, caseFile, coreTests, serialVars, expired, rbootconf,
                   check_case, todo, cur, launched, live, buf, nread, index,
                   outcomes, teeVars, passed, failed, timeout, passedTxt,
                   failedTxt, exitCode>>

\* `if len(failed) > 3` of baremetal-libc-test.py, baremetal-test-riscv64.py
FailThreshold == 3

\* the exit status of each runner
SubExitCode(p, allowLines) ==
    IF p = "libc"
    THEN IF (failed \cup timeout) \ LoadCases(allowLines) # {}
         THEN "1" ELSE "0"
    ELSE IF p = "find_failed"
    THEN IF Cardinality(failed) > 0 THEN "-1" ELSE "0"
    ELSE IF Cardinality(failed) > FailThreshold THEN "-1" ELSE "0"

\* the final `if` and the exit
SubVerdict ==
    /\ pc = "verdict"
    /\ prog \in SubProgs
    /\ exitCode' = SubExitCode(prog, checkFile)
    /\ pc' = "done"
    /\ UNCHANGED <<inputVars, serialVars, expired, rbootconf, check_case,
                   todo, cur, launched, live, buf, nread, index, outcomes,
                   teeVars, resultFile, setVars>>

(***************************************************************************)
(* The serial-console runner, scripts/baremetal-libc-test-d1.py (d1).      *)
(***************************************************************************)
\* an empty command line echoed by the shell of the device
PromptLine == <<"/", " ", "#", " ", "\r", "\n">>
\* the lines the device may send
DeviceLines == {PromptLine, FailedWord \o NL}

\* re.search(r"/ # [\r\n]", output)
HasPrompt(output) ==
    \/ Contains(output, <<"/", " ", "#", " ", "\r">>)
    \/ Contains(output, <<"/", " ", "#", " ", "\n">>)

\* os.path.basename(cmd)
Basename(path) == Split(path, "/")[Len(Split(path, "/"))]

\* a polling loop that adds the command to no set when it ends at the
\* deadline with no failure pattern in the output
SerialClassNoDeadline(promptSeen, output) ==
    IF MatchesFailed("d1", output) THEN "failed"
    ELSE IF promptSeen THEN "passed" ELSE "none"

\* the set the command is added to when the polling loop ends: with the
\* prompt seen, or (promptSeen false) at the deadline
SerialClass(promptSeen, output) ==
    IF MatchesFailed("d1", output) THEN "failed"
    ELSE IF promptSeen THEN "passed" ELSE "timeout"

\* the port is opened, the receiver thread started, the manifest read
SerialLoad ==
    /\ pc = "start"
    /\ prog = "d1"
    /\ outFile' = <<Label("open succeed >")>>
    /\ echo' = <<Label("open succeed >")>>
    /\ check_case' = LoadCases(caseFile)
    /\ todo' \in SetToSeqs(check_case')
    /\ pc' = "loop"
    /\ UNCHANGED <<inputVars, serialVars, expired, rbootconf, cur, launched,
                   live, buf, nread, index, outcomes, pend, tees, resultFile,
                   setVars, exitCode>>

\* the head of the loop: TMP_FILE is truncated and the command built;
\* after the last command the summary is printed
SerialSend ==
    /\ pc = "loop"
    /\ prog = "d1"
    /\ IF todo = <<>>
       THEN /\ pc' = "report"
            /\ UNCHANGED <<todo, cur, tmpFile>>
       ELSE /\ tmpFile' = <<NL>>
            /\ cur' = Head(todo) \o NL
            /\ todo' = Tail(todo)
            /\ pc' = "send"
    /\ UNCHANGED <<inputVars, netOut, expired, rbootconf, check_case,
                   launched, live, buf, nread, index, outcomes, teeVars,
                   resultFile, setVars, exitCode>>

\* serial.write(cmd.encode()): the command is written to the port; the
\* receiver thread may have run since TMP_FILE was truncated
SerialWrite ==
    /\ pc = "send"
    /\ prog = "d1"
    /\ launched' = Append(launched, cur)
    /\ echo' = Append(echo, Label("while Ture: in"))
    /\ pc' = "poll"
    /\ UNCHANGED <<inputVars, serialVars, expired, rbootconf, check_case,
                   todo, cur, live, buf, nread, index, outcomes, outFile,
                   pend, tees, resultFile, setVars, exitCode>>

\* one round of rcv_data: a line sent by the device is read from the port,
\* printed and appended to OUTPUT_FILE and to TMP_FILE; the thread runs
\* between any two statements of the main loop
RcvData ==
    /\ prog = "d1"
    /\ pc \in {"loop", "send", "poll"}
    /\ nread < MaxOut
    /\ nread' = nread + 1
    /\ \E rcv \in DeviceLines :
          /\ echo' = Append(echo, rcv \o NL)
          /\ outFile' = Append(outFile, rcv \o NL)
          /\ tmpFile' = Append(tmpFile, rcv \o NL)
    /\ UNCHANGED <<inputVars, pc, netOut, expired, rbootconf, check_case,
                   todo, cur, launched, live, buf, index, outcomes, pend,
                   tees, resultFile, setVars, exitCode>>

\* the end of the polling loop for the command: it is added to one of the
\* sets and TMP_FILE is renamed after it
SerialRecord(class) ==
    /\ passed' = IF class = "passed" THEN passed \cup {cur} ELSE passed
    /\ failed' = IF class = "failed" THEN failed \cup {cur} ELSE failed
    /\ timeout' = IF class = "timeout" THEN timeout \cup {cur} ELSE timeout
    /\ resultFile' =
          Append(resultFile, <<class, Basename(RStrip(cur)), tmpFile>>)
    /\ tmpFile' = <<>>
    /\ pc' = "loop"

\* a poll finds the prompt in TMP_FILE
PollPrompt ==
    /\ pc = "poll"
    /\ prog = "d1"
    /\ HasPrompt(Concat(tmpFile))
    /\ SerialRecord(SerialClass(TRUE, Concat(tmpFile)))
    /\ echo' = Append(echo, Label("while Ture: find #, out"))
    /\ UNCHANGED <<inputVars, netOut, expired, rbootconf, check_case,
                   todo, cur, launched, live, buf, nread, index, outcomes,
                   outFile, pend, tees, passedTxt, failedTxt, summary,
                   exitCode>>

\* a poll finds no prompt and the deadline passed
PollTimeout ==
    /\ pc = "poll"
    /\ prog = "d1"
    /\ ~HasPrompt(Concat(tmpFile))
    /\ SerialRecord(SerialClass(FALSE, Concat(tmpFile)))
    /\ expired' = IF MatchesFailed("d1", Concat(tmpFile)) THEN expired
                  ELSE expired \cup {Len(launched)}
    /\ echo' = Append(echo, Label("while True: timeout, out"))
    /\ UNCHANGED <<inputVars, netOut, rbootconf, check_case, todo, cur,
                   launched, live, buf, nread, index, outcomes, outFile,
                   pend, tees, passedTxt, failedTxt, summary, exitCode>>

(***************************************************************************)
(* The network runner, scripts/baremetal-net-test-d1.py (net).             *)
(***************************************************************************)
NetPing == <<"nettest : ping">>
NetTcp == <<"nettest : tcp">>
NetUdp == <<"nettest : udp">>
NetCases == {NetPing, NetTcp, NetUdp}

Icmp == <<"I", "C", "M", "P">>
Hello == <<"H", "e", "l", "l", "o", "!", " ", "z", "C", "o", "r", "e">>
From == <<"f", "r", "o", "m">>
\* the lines tcpdump may write to OUTPUT_NET
NetLines == {Icmp \o NL, Hello \o NL, From \o NL}

\* the port is opened and the two threads are started
NetStart ==
    /\ pc = "start"
    /\ prog = "net"
    /\ pc' = "ping"
    /\ UNCHANGED <<inputVars, serialVars, expired, rbootconf, check_case,
                   todo, cur, launched, live, buf, nread, index, outcomes,
                   teeVars, resultFile, setVars, exitCode>>

\* rcv_netdata: tcpdump writes a line of its capture
NetCapture ==
    /\ prog = "net"
    /\ pc \in {"ping", "tcp", "udp"}
    /\ nread < MaxOut
    /\ \E l \in NetLines : netOut' = Append(netOut, l)
    /\ nread' = nread + 1
    /\ UNCHANGED <<inputVars, pc, tmpFile, expired, rbootconf,
                   check_case, todo, cur, launched, live, buf, index,
                   outcomes, teeVars, resultFile, setVars, exitCode>>

\* the sets one test of net_test is added to: found tells whether its
\* pattern occurs in the capture, late whether more than 10 seconds passed
\* between taking start_time and the test of the clock two statements on
NetClasses(test, found, late) ==
    IF test = NetPing
    THEN IF found THEN {"passed"} ELSE {"failed"}
    ELSE (IF found THEN {"passed"} ELSE {})
         \cup (IF late THEN {"timeout"} ELSE {})

\* the pattern searched for each test
NetPattern(test) ==
    IF test = NetPing THEN Icmp ELSE IF test = NetTcp THEN Hello ELSE From

\* one of the three tests of net_test: the command is run, the capture is
\* read and searched
NetTest ==
    /\ prog = "net"
    /\ pc \in {"ping", "tcp", "udp"}
    /\ cur' = IF pc = "ping" THEN NetPing
              ELSE IF pc = "tcp" THEN NetTcp ELSE NetUdp
    /\ launched' = Append(launched, cur')
    /\ \E late \in BOOLEAN :
          LET cls == NetClasses(cur', Contains(Concat(netOut),
                                               NetPattern(cur')), late)
          IN  /\ passed' = IF "passed" \in cls
                           THEN passed \cup {cur'} ELSE passed
              /\ failed' = IF "failed" \in cls
                           THEN failed \cup {cur'} ELSE failed
              /\ timeout' = IF "timeout" \in cls
                            THEN timeout \cup {cur'} ELSE timeout
    /\ pc' = IF pc = "ping" THEN "tcp" ELSE IF pc = "tcp" THEN "udp"
             ELSE "report"
    /\ UNCHANGED <<inputVars, serialVars, expired, rbootconf, check_case,
                   todo, live, buf, nread, index, outcomes, teeVars,
                   resultFile, passedTxt, failedTxt, summary, exitCode>>

\* the summary printed at the end of the serial and of the net runner
Summary ==
    /\ pc = "report"
    /\ prog \in {"d1", "net"}
    /\ summary' = <<[passed |-> Cardinality(passed), failed |-> failed,
                     timeout |-> timeout]>>
    /\ exitCode' = "0"
    /\ pc' = "done"
    /\ UNCHANGED <<inputVars, serialVars, expired, rbootconf, check_case,
                   todo, cur, launched, live, buf, nread, index, outcomes,
                   teeVars, resultFile, passed, failed, timeout, passedTxt,
                   failedTxt>>

(***************************************************************************)
(* The environment.                                                        *)
(***************************************************************************)
\* a Session the watcher has left running (it matched a marker or gave up
\* at the deadline) ends by itself.  Its exit is independent of every step
\* of the runner up to the next spawn, so it is taken right after the
\* watcher returned or not at all.
SessionExit ==
    /\ pc = "result"
    /\ prog \in PexpectProgs
    /\ \E s \in live : live' = live \ {s}
    /\ UNCHANGED <<inputVars, serialVars, expired, pc, rbootconf, check_case, todo, cur, launched,
                   buf, nread, index, outcomes, teeVars, resultFile, setVars,
                   exitCode>>

(***************************************************************************)
(* The specification of a run.                                             *)
(***************************************************************************)
Progs == PexpectProgs \cup SubProgs \cup {"d1", "net"}

\* the state of a runner before its first statement
Fresh ==
    /\ pc = "start"
    /\ check_case = {}
    /\ todo = <<>>
    /\ cur = <<>>
    /\ launched = <<>>
    /\ live = {}
    /\ buf = <<>>
    /\ nread = 0
    /\ index = -1
    /\ outcomes = <<>>
    /\ outFile = <<>>
    /\ pend = <<>>
    /\ echo = <<>>
    /\ tees = 0
    /\ resultFile = <<>>
    /\ passed = {}
    /\ failed = {}
    /\ timeout = {}
    /\ passedTxt = <<>>
    /\ failedTxt = <<>>
    /\ summary = <<>>
    /\ tmpFile = <<>>
    /\ netOut = <<>>
    /\ expired = {}
    /\ exitCode = "running"

Init ==
    /\ prog \in Progs
    /\ caseFile \in (IF prog = "baremetal_core"
                     THEN CaseFilePool \cup {<<BlankLine>>, <<CommentLine>>}
                     ELSE IF prog \in {"unix_core"} \cup ConfProgs
                     THEN CaseFilePool
                     ELSE IF prog = "d1"
                     THEN {<<LineB, LineAPadded, LineA>>, <<LineA>>}
                     ELSE IF prog = "libc" THEN GlobPool
                     ELSE IF prog = "core"
                     THEN {<<LineA, LineB>>, <<LineA, LineNegB>>,
                           <<LineA, CommentLine, BlankLine>>}
                     ELSE IF prog = "loader"
                     THEN {<<LineA, BlankLine, CommentLine, LineB>>,
                           <<CommentLine, LineA>>}
                     ELSE {<<>>})
    /\ checkFile \in (IF prog \in {"baremetal_core", "unix_core", "libc",
                                    "bm_libc", "rv64"}
                      THEN CheckFilePool
                      ELSE IF prog = "core"
                      THEN {<<LineA>>, <<LineA, LineB>>}
                      ELSE {<<>>})
    /\ coreTests \in (IF prog = "local_core" THEN CoreTestsPool ELSE {<<>>})
    /\ rbootconf \in (IF prog = "local_core" THEN DocPool ELSE {<<>>})
    /\ Fresh

Next ==
    \/ LoadManifests
    \/ LoadJson
    \/ LoadLines
    \/ NextCase
    \/ Mutate
    \/ Spawn
    \/ SpawnError
    \/ SpawnFiltered
    \/ ReadLine
    \/ ReadEOF
    \/ ReadTimeout
    \/ Result
    \/ Classify
    \/ Verdict
    \/ SessionExit
    \/ LoadSub
    \/ NextSub
    \/ WriteConf
    \/ RunStart
    \/ RunOk
    \/ RunError
    \/ RunTimeout
    \/ Report
    \/ SubVerdict
    \/ SerialLoad
    \/ SerialSend
    \/ SerialWrite
    \/ RcvData
    \/ PollPrompt
    \/ PollTimeout
    \/ NetStart
    \/ NetCapture
    \/ NetTest
    \/ Summary

Spec == Init /\ [][Next]_vars

(***************************************************************************)
(* The loading of the two manifests alone, over all manifests of at most   *)
(* MaxManifest lines.                                                      *)
(***************************************************************************)
ManifestLines == {LineA, LineB, LineAPadded}

InitLoad ==
    /\ prog \in {"baremetal_core", "unix_core"}
    /\ caseFile \in SeqsUpTo(ManifestLines, MaxManifest)
    /\ checkFile \in SeqsUpTo(ManifestLines, MaxManifest)
    /\ coreTests = <<>>
    /\ rbootconf = <<>>
    /\ Fresh

NextLoad == LoadManifests

SpecLoad == InitLoad /\ [][NextLoad]_vars

(***************************************************************************)
(* The classification of a log on its own: the output file holds any log   *)
(* of at most MaxLog lines when the loop over its lines starts.            *)
(***************************************************************************)
\* control sequences a terminal-colouring Session writes
ColourOn == <<Esc, "[", "3", "2", "m">>
ColourOff == <<Esc, "[", "0", "m">>

\* the lines of a log: result lines as the test runner prints them, plain
\* and coloured, a pass line with nothing after the key, a failure line
\* without the closing parenthesis, and a line that is no result line
ClassLines ==
    {OkLine(KeyA),
     FailedLine(KeyA),
     OkMarker \o <<" ">> \o KeyB \o NL,
     FailedMarker \o <<" ">> \o KeyB \o NL,
     ColourOn \o OkMarker \o ColourOff \o <<" ">> \o KeyB
        \o <<" ", "(", "1", ")", "\n">>,
     NoiseLine}

InitClassify ==
    /\ prog \in {"baremetal_core", "core"}
    /\ caseFile = <<>>
    /\ checkFile = (IF prog = "core" THEN <<LineA, LineB>> ELSE <<>>)
    /\ coreTests = <<>>
    /\ rbootconf = <<>>
    /\ pc = "classify"
    /\ outFile \in SeqsUpTo(ClassLines, MaxLog)
    /\ check_case = {}
    /\ todo = <<>>
    /\ cur = <<>>
    /\ launched = <<>>
    /\ live = {}
    /\ buf = <<>>
    /\ nread = 0
    /\ index = -1
    /\ outcomes = <<>>
    /\ pend = <<>>
    /\ echo = <<>>
    /\ tees = 0
    /\ resultFile = <<>>
    /\ passed = {}
    /\ failed = {}
    /\ timeout = {}
    /\ passedTxt = <<>>
    /\ failedTxt = <<>>
    /\ summary = <<>>
    /\ tmpFile = <<>>
    /\ netOut = <<>>
    /\ expired = {}
    /\ exitCode = "running"

NextClassify == Classify

SpecClassify == InitClassify /\ [][NextClassify]_vars

(***************************************************************************)
(* The statistic parser, scripts/info_statistic.py.                        *)
(***************************************************************************)
RunMarker == <<"[", " ", "R", "U", "N", " ", " ", " ", " ", " ", " ", "]">>

\* line[13:].split(' ')[0].strip()
StatKey(line) == Strip(Split(Drop(line, 13), " ")[1])

\* need_to_fix_dic[k] = v: a dictionary keeps its keys in the order of
\* their first assignment
DictSet(dic, k, v) ==
    IF \E i \in 1..Len(dic) : dic[i][1] = k
    THEN [i \in 1..Len(dic) |-> IF dic[i][1] = k THEN <<k, v>> ELSE dic[i]]
    ELSE Append(dic, <<k, v>>)

\* the variables of match() are a record st: dic, recording, l, key, and
\* stored, which tells that the list l is the very object held by the
\* dictionary under key
\* l.append(line): the entry of the dictionary that holds the same list
\* object changes with it
StatAppend(st, line) ==
    [st EXCEPT !.l = Append(@, line),
               !.dic = IF st.stored
                       THEN DictSet(@, st.key, Append(st.l, line)) ELSE @]

\* the body of the loop of match() for one line of the log
StatStep(st, raw) ==
    LET line == StripAnsi(raw)
        isRun == StartsWith(line, RunMarker)
        isResult(marker) ==
           StartsWith(line, marker) /\ EndsWith(line, <<")", "\n">>)
    IN  IF isRun /\ ~st.recording
        THEN [st EXCEPT !.recording = TRUE, !.key = StatKey(line),
                        !.l = <<line>>, !.stored = FALSE]
        ELSE IF isResult(OkMarker)
        THEN [StatAppend(st, line) EXCEPT !.recording = FALSE,
                                          !.l = <<>>, !.stored = FALSE]
        ELSE IF isResult(FailedMarker)
        THEN [st EXCEPT !.recording = FALSE,
                        !.l = Append(st.l, line),
                        !.dic = DictSet(st.dic, st.key, Append(st.l, line)),
                        !.stored = TRUE]
        ELSE IF isRun /\ st.recording
        THEN [st EXCEPT !.dic = DictSet(st.dic, st.key, st.l),
                        !.key = StatKey(line),
                        !.l = <<line>>, !.stored = FALSE]
        ELSE IF st.recording THEN StatAppend(st, line)
        ELSE st

RECURSIVE StatLoop(_, _)
\* for line in f.readlines(): ...
StatLoop(lines, st) ==
    IF lines = <<>> THEN st
    ELSE StatLoop(Tail(lines), StatStep(st, Head(lines)))

\* need_to_fix_dic after the loop over the log
NeedToFix(lines) ==
    StatLoop(lines, [dic |-> <<>>, recording |-> FALSE, l |-> <<>>,
                     key |-> <<>>, stored |-> FALSE]).dic

\* the statistic file: a heading with the number and the key of every
\* entry, its lines, and the closing lines
StatisticText(dic) ==
    Concat([i \in 1..Len(dic) |->
              <<NumStr(i) \o <<" ============================== ">>
                  \o dic[i][1] \o <<" ==============================", "\n">>>>
              \o dic[i][2]
              \o <<Label("============================== End ==============================")>>
              \o <<<<"\n", "\n">>>>])

\* match(): the log is read and the statistic file written
Match ==
    /\ pc = "start"
    /\ prog = "statistic"
    /\ resultFile' = StatisticText(NeedToFix(SplitLines(Concat(outFile))))
    /\ pc' = "done"
    /\ UNCHANGED <<inputVars, serialVars, expired, rbootconf, check_case, todo, cur, launched,
                   live, buf, nread, index, outcomes, teeVars, setVars,
                   exitCode>>

InitStat ==
    /\ prog = "statistic"
    /\ caseFile = <<>>
    /\ checkFile = <<>>
    /\ coreTests = <<>>
    /\ rbootconf = <<>>
    /\ pc = "start"
    \* the lines of a log: cases a and b started, a passed, b failed, and a
    \* line that is none of these
    /\ outFile \in SeqsUpTo({RunMarker \o <<" ">> \o KeyA \o NL,
                             RunMarker \o <<" ">> \o KeyB \o NL,
                             OkLine(KeyA), FailedLine(KeyB), NoiseLine},
                            MaxStat)
    /\ check_case = {}
    /\ todo = <<>>
    /\ cur = <<>>
    /\ launched = <<>>
    /\ live = {}
    /\ buf = <<>>
    /\ nread = 0
    /\ index = -1
    /\ outcomes = <<>>
    /\ pend = <<>>
    /\ echo = <<>>
    /\ tees = 0
    /\ resultFile = <<>>
    /\ passed = {}
    /\ failed = {}
    /\ timeout = {}
    /\ passedTxt = <<>>
    /\ failedTxt = <<>>
    /\ summary = <<>>
    /\ tmpFile = <<>>
    /\ netOut = <<>>
    /\ expired = {}
    /\ exitCode = "running"

NextStat == Match

SpecStat == InitStat /\ [][NextStat]_vars

(***************************************************************************)
(* Properties.                                                             *)
(***************************************************************************)

\* C1: at most one Session is active at any time: whenever the per-case
\* loop of local_core-test.py or baremetal-core-tests.py spawns the Session
\* of the next case, no Session of an earlier case is still running,
\* whatever the outcome of that case was.
C1_PreviousSessionEnded ==
    [][(prog \in {"local_core", "baremetal_core"}
        /\ Len(launched') > Len(launched)) => live = {}]_vars

\* the commands of the serial runner whose polling loop has ended
SerialDone ==
    {launched[i] : i \in 1..(IF pc = "poll" THEN Len(launched) - 1
                             ELSE Len(launched))}

\* C2: the watcher of every case ends in exactly one terminal state and
\* produces exactly one Outcome.  In the pexpect runners the Outcomes are,
\* in order, those of the Sessions launched, one each, the Session still
\* watched excepted, and each names one entry of the expect list; in the
\* serial runner every command whose polling ended is in exactly one of
\* passed, failed and timeout, and a command still polled in none.
C2_OneOutcomePerCase ==
    /\ prog \in PexpectProgs =>
          /\ Len(outcomes) = (IF pc \in {"expect", "result"}
                              THEN Len(launched) - 1 ELSE Len(launched))
          /\ \A i \in 1..Len(outcomes) :
                /\ outcomes[i][1] = launched[i]
                /\ \E k \in 1..Len(ExpectList(prog)) :
                      outcomes[i][2] = ResultNames(prog)[k]
          /\ pc = "result" => index \in 0..(Len(ExpectList(prog)) - 1)
    /\ prog = "d1" =>
          /\ \A c \in SerialDone :
                \/ c \in passed /\ c \notin failed /\ c \notin timeout
                \/ c \notin passed /\ c \in failed /\ c \notin timeout
                \/ c \notin passed /\ c \notin failed /\ c \in timeout
          /\ passed \cup failed \cup timeout = SerialDone
          /\ Len(resultFile) = Cardinality(SerialDone)

\* two cases of unix-core-tests.py watched to their ends, one to the
\* deadline and one to a panic
C2_Witness ==
    /\ prog = "unix_core"
    /\ pc = "loop"
    /\ Len(launched) = 2
    /\ outcomes[1][2] = "TIMEOUT"
    /\ outcomes[2][2] = "PANICKED"

\* the case has a line of its own below the label line in the report
ListedUnder(report, label, case) ==
    \E j \in 1..Len(report) :
       /\ report[j] = Label(label)
       /\ \E k \in (j + 1)..Len(report) : report[k] = case \o NL

\* C3: a case whose deadline passes while its output holds neither a success
\* nor a failure marker is recorded as timed out.  In scripts/libc-tests.py
\* and the serial runner it is in timeout and in neither passed nor failed,
\* and once the report is written it is listed there under TIMEOUT; in
\* local_core-test.py its line of the Result file says TIMEOUT.
C3_DeadlineRecordedTimedOut ==
    \A i \in expired :
       /\ prog \in {"libc", "d1"} =>
             /\ launched[i] \in timeout
             /\ launched[i] \notin passed
             /\ launched[i] \notin failed
       /\ prog = "libc" /\ pc \in {"verdict", "done"} =>
             ListedUnder(resultFile, "TIMEOUT:", launched[i])
       /\ prog = "d1" /\ pc = "done" => launched[i] \in summary[1].timeout
       /\ prog = "local_core" /\ i <= Len(outcomes) =>
             outcomes[i] = <<launched[i], "TIMEOUT">>

\* scripts/libc-tests.py has written its report after a run in which the
\* deadline of a case passed
C3_Witness ==
    /\ prog = "libc"
    /\ pc = "done"
    /\ expired # {}
    /\ passed # {}

\* the allow-list of a libc runner: the allow-failed file of
\* scripts/libc-tests.py, the fail file of baremetal-libc-test.py, none for
\* baremetal-libc-test-find-failed.py
AllowList ==
    IF prog \in {"libc", "bm_libc"} THEN LoadCases(checkFile) ELSE {}

\* C4: a libc runner exits with status 0 if and only if no failed or timed
\* out case is off the allow-list, that is, (failed \cup timeout) minus the
\* allow-list is empty.
C4_ExitZeroIffNoUnexpected ==
    (pc = "done" /\ prog \in {"libc", "bm_libc", "find_failed"}) =>
       (exitCode = "0" <=> (failed \cup timeout) \ AllowList = {})

\* C5: a core runner exits with status 0 if and only if no FAILED line was
\* observed and every case of the expected set (the baseline of
\* core-tests.py, the run set of unix-core-tests.py) has an OK line.
C5_ExitZeroIffAllExpectedPassed ==
    (pc = "done" /\ prog \in {"core", "unix_core"}) =>
       (exitCode = "0" <=> (failedTxt = <<>> /\ check_case \ passed = {}))

\* C6: after the run every case of the run set is in some result class, and
\* a run with a case in none does not exit with status 0: in the two
\* per-case core runners a case has an OK line or a FAILED line, in the
\* network runner each of the three tests is in passed, failed or timeout.
C6_EveryCaseRecorded ==
    /\ (pc = "done" /\ prog \in {"baremetal_core", "unix_core"}) =>
          \/ check_case \subseteq (passed \cup FailedCase(outFile))
          \/ exitCode # "0"
    /\ (pc = "done" /\ prog = "net") =>
          NetCases \subseteq (passed \cup failed \cup timeout)

\* the case identifiers named by the lines of a manifest, whitespace apart
Named(lines) == {Strip(l) : l \in Range(lines)}

\* C7: the effective run set is the set difference of the all-cases
\* manifest and the exception manifest, and is the same for every manifest
\* with the same lines in another order or another number of copies.
C7_RunSetIsDifference ==
    pc = "loop" =>
       /\ check_case = Named(caseFile) \ Named(checkFile)
       /\ \A m \in SeqsUpTo(ManifestLines, MaxManifest) :
             /\ Range(m) = Range(caseFile) => RunSet(m, checkFile) = check_case
             /\ Range(m) = Range(checkFile) => RunSet(caseFile, m) = check_case

\* the manifests loaded: the all-cases manifest names case a with padding,
\* the exception manifest names case a after case b
C7_Witness ==
    /\ pc = "loop"
    /\ caseFile = <<LineB, LineAPadded>>
    /\ checkFile = <<LineB, LineA>>
    /\ check_case = {}

\* C8: no Session is launched for a case of the exception / known-failing
\* manifest, also when the all-cases manifest names it, and the case is in
\* none of passed, failed and timeout.
C8_ExceptionsNeverRun ==
    prog \in {"bm_libc", "rv64", "unix_core"} =>
       \A c \in LoadCases(checkFile) :
          /\ \A i \in 1..Len(launched) : launched[i] # c
          /\ c \notin passed \cup failed \cup timeout

\* baremetal-libc-test.py has ended a run whose allow file and fail file
\* both name case b and which ran case a
C8_Witness ==
    /\ prog = "bm_libc"
    /\ pc = "done"
    /\ KeyB \in LoadCases(caseFile) \cap LoadCases(checkFile)
    /\ launched = <<KeyA>>

\* the lines of the document other than the cmdline line
OtherLines(doc) ==
    SelectSeq(SplitLines(doc), LAMBDA l : ~StartsWith(l, Cmdline))

\* C9: the rewrite of rboot.conf changes the cmdline line only: the other
\* lines, blank lines, comment lines and lines with spaces among them, are
\* the same, in the same order, after every rewrite.
C9_OtherLinesPreserved ==
    [][pc = "mutate" => OtherLines(rbootconf') = OtherLines(rbootconf)]_vars

\* C10: the rewrite is idempotent: the document written for a case is left
\* as it is by a second rewrite for the same case.
C10_ApplyIdempotent ==
    [][pc = "mutate" => ApplyConfig(rbootconf', cur) = rbootconf']_vars

\* C11: when rboot.conf holds no cmdline line the rewrite for a case is an
\* error and no Session is launched for the case: every Session of
\* local_core-test.py is spawned with a configuration that embeds the
\* identifier of its case.
C11_SpawnedWithOwnIdentifier ==
    [][(prog = "local_core" /\ Len(launched') > Len(launched))
          => Contains(rbootconf, cur)]_vars

\* C12: the configuration (rboot.conf) or launch script (script.sh) of a
\* case is written in full and closed before the Session of the case is
\* started.  A step that starts a Session finds the complete document of
\* its case in the file and leaves the file alone; in local_core-test.py
\* the step before the start is the rewrite, and it writes the whole
\* rewritten document.
C12_ConfigWrittenBeforeStart ==
    [][/\ (prog \in ConfProgs /\ Len(launched') > Len(launched)) =>
             /\ rbootconf = ConfText(prog, cur)
             /\ rbootconf' = rbootconf
       /\ (prog = "local_core" /\ Len(launched') > Len(launched)) =>
             /\ pc = "spawn"
             /\ rbootconf' = rbootconf
       /\ (prog = "local_core" /\ pc' = "spawn") =>
             /\ pc = "mutate"
             /\ cur' = cur
             /\ rbootconf' = ApplyConfig(rbootconf, cur)]_vars

\* baremetal-libc-test.py waits for the command of its second case, whose
\* rboot.conf is in place
C12_Witness ==
    /\ prog = "bm_libc"
    /\ pc = "wait"
    /\ Len(launched) = 2
    /\ rbootconf = ConfText(prog, launched[2])

\* C13: after a run the sets passed, failed and timeout are pairwise
\* disjoint, also when the log holds an OK line and a FAILED line for the
\* same key (scripts/libc-tests.py, baremetal-core-tests.py, net_test).
C13_ResultSetsDisjoint ==
    (pc = "done" /\ prog \in {"libc", "baremetal_core", "net"}) =>
       /\ passed \cap failed = {}
       /\ passed \cap timeout = {}
       /\ failed \cap timeout = {}

\* the cases a runner has to run: the paths found that are not statically
\* linked (scripts/libc-tests.py), the cases of the all-cases manifest that
\* the fail / exception manifest does not name (the others)
RunCases ==
    IF prog = "libc"
    THEN {c \in Range(caseFile) : ~EndsWith(c, StaticSuffix)}
    ELSE Named(caseFile) \ Named(checkFile)

\* the loop over the cases has ended
LoopEnded == pc \in {"classify", "report", "verdict", "done"}

\* every case of the run set was launched once and has one outcome
RunOnce ==
    /\ \A i, j \in 1..Len(launched) : launched[i] = launched[j] => i = j
    /\ LoopEnded =>
          /\ {launched[i] : i \in 1..Len(launched)} = RunCases
          /\ prog = "unix_core" => Len(outcomes) = Len(launched)
          /\ prog \in SubProgs =>
                Cardinality(passed) + Cardinality(failed)
                + Cardinality(timeout) = Len(launched)

\* the runners C14 is about
RunProgs == {"libc", "bm_libc", "unix_core"}

\* a statement of the runner or a step of its Session, the classification
\* of the log apart (Classify, which is enabled whenever pc = "classify")
RunStep ==
    \/ LoadManifests \/ NextCase \/ Spawn \/ ReadLine \/ ReadEOF
    \/ ReadTimeout \/ Result \/ Verdict \/ LoadSub \/ NextSub \/ WriteConf
    \/ RunStart \/ RunOk \/ RunError \/ RunTimeout \/ Report \/ SubVerdict

\* the run has ended or can take a step
CanStep == pc \in {"done", "classify"} \/ ENABLED RunStep

\* the work left in a loop body that starts at pc
BodyWork ==
    IF pc = "spawn" THEN MaxOut + 7
    ELSE IF pc = "expect" THEN 5 + (MaxOut - nread)
    ELSE IF pc = "result" THEN 4
    ELSE IF pc = "write" THEN 8
    ELSE IF pc = "run" THEN 7
    ELSE IF pc = "wait" THEN 5
    ELSE 0

\* the work left in the run: every step of a run lowers it
Work ==
    IF pc = "start" THEN (MaxOut + 8) * (Len(KeyOrder) + 1)
    ELSE IF pc = "done" THEN 0
    ELSE IF pc = "verdict" THEN 1
    ELSE IF pc \in {"classify", "report"} THEN 2
    ELSE (MaxOut + 8) * Len(todo) + 3 + BodyWork + Cardinality(live)

\* C14: a failed or timed out case neither aborts the run nor is retried:
\* whatever the outcomes, every case of the run set is launched exactly
\* once, its outcome is recorded once, and the runner reaches its final
\* report and verdict: a run that has not ended can always take a step,
\* and every step lowers the work left.
C14_EveryCaseOnceAndReport ==
    /\ [](prog \in RunProgs => RunOnce /\ CanStep)
    /\ [][(prog \in RunProgs) => (Work' < Work)]_vars

\* the words under which a runner built on pexpect records a failed case
FailedWords == {"failed", "FAILED", "PANICKED"}

\* C15: a case whose Session's stream ends before a success marker was
\* seen is recorded as failed: the outcome recorded for an expect that
\* returned the index of EOF is one of the failure words, never a success
\* word
C15_EofRecordedFailed ==
    [][(/\ prog \in {"loader", "local_core", "unix_core"}
        /\ pc = "result"
        /\ index = IndexOf(ExpectList(prog), "EOF"))
       => (/\ Len(outcomes') = Len(outcomes) + 1
           /\ outcomes'[Len(outcomes')][1] = cur
           /\ outcomes'[Len(outcomes')][2] \in FailedWords)]_vars

\* C16: the final report names every case that did not pass under the
\* class of its outcome: in baremetal-libc-test-find-failed.py every failed
\* file is printed with the failed ones and every timed-out file with the
\* timed-out ones, in scripts/libc-tests.py they are listed under FAILED:
\* and TIMEOUT: of the result file, and in baremetal-core-tests.py every
\* case that was run and did not pass is printed with the failed cases
C16_NonPassedEnumerated ==
    pc = "done" =>
       /\ prog = "find_failed" =>
             /\ failed \subseteq summary[1].failed
             /\ timeout \subseteq summary[1].timeout
       /\ prog = "libc" =>
             /\ \A c \in failed : ListedUnder(resultFile, "FAILED:", c)
             /\ \A c \in timeout : ListedUnder(resultFile, "TIMEOUT:", c)
       /\ prog = "baremetal_core" =>
             \A i \in 1..Len(launched) :
                launched[i] \notin passed =>
                   summary # <<>> /\ launched[i] \in summary[1].failed

\* C17: the watcher decides in the order success marker, failure marker,
\* end of the stream, deadline.  In unix-core-tests.py an expect that
\* returns with the success marker in the buffer returns the index of the
\* success marker, also when the buffer holds the failure marker; in the
\* serial runner a polling loop that ends with the prompt in TMP_FILE adds
\* the command to passed and not to failed.
C17_SuccessMarkerFirst ==
    [][/\ (prog = "unix_core" /\ pc = "expect" /\ pc' = "result"
           /\ Contains(buf', Finished))
          => (index' = 0)
       /\ (prog = "d1" /\ pc = "poll" /\ pc' = "loop"
           /\ HasPrompt(Concat(tmpFile)))
          => (cur \in passed' /\ cur \notin failed')]_vars

\* what was printed since the last command was written to the port (since
\* the start, before the first one)
SinceLastSend ==
    LET sends == {i \in 1..Len(echo) : echo[i] = Label("while Ture: in")}
        last == IF sends = {} THEN 0
                ELSE CHOOSE i \in sends : \A j \in sends : j <= i
    IN  SubSeq(echo, last + 1, Len(echo))

\* C18: in the serial runner a command is written to the port only after
\* the receiver thread has read a shell prompt since the previous command
\* was written (since the start, for the first command)
C18_SendAfterPrompt ==
    [][(prog = "d1" /\ Len(launched') > Len(launched))
       => (\E i \in 1..Len(SinceLastSend) : HasPrompt(SinceLastSend[i]))]_vars

\* the serial runner has added every command it has finished with to one
\* of the three sets, and after the loop that is every command of the
\* manifest, with the summary printed at the end
SerialOnce ==
    /\ \A c \in SerialDone :
          Cardinality({c} \cap passed) + Cardinality({c} \cap failed)
          + Cardinality({c} \cap timeout) = 1
    /\ pc \in {"report", "done"} =>
          SerialDone = {c \o NL : c \in LoadCases(caseFile)}
    /\ pc = "done" => summary # <<>>

\* a statement of the main thread of the serial runner: the receiver
\* thread (RcvData) takes no part
SerialMain ==
    \/ SerialLoad \/ SerialSend \/ SerialWrite \/ PollPrompt \/ PollTimeout
    \/ Summary

\* the work left in a run of the serial runner
SerialWork ==
    IF pc = "start" THEN (MaxOut + 4) * (Len(caseFile) + 2)
    ELSE IF pc = "done" THEN 0
    ELSE IF pc = "report" THEN 1
    ELSE (MaxOut + 4) * Len(todo) + (MaxOut - nread)
         + (IF pc = "send" THEN 4 ELSE IF pc = "poll" THEN 3 ELSE 2)

\* C19: the polling loop of the serial runner ends for every command and
\* the run reaches its summary with an outcome recorded for every command,
\* whatever the device sends: until the summary is printed the main thread
\* can take a step without the receiver thread, every step lowers the
\* work left, and every finished command is in exactly one set.
C19_SerialRunEnds ==
    /\ [](prog = "d1" => SerialOnce /\ (pc = "done" \/ ENABLED SerialMain))
    /\ [][(prog = "d1") => (SerialWork' < SerialWork)]_vars

\* the serial runner has printed its summary after a run of two commands
\* in which the device sent nothing: both are in timeout
C19_Witness ==
    /\ prog = "d1"
    /\ pc = "done"
    /\ Len(launched) = 2
    /\ Cardinality(timeout) = 2
    /\ Len(outFile) = 1

\* C20: when the command of a case cannot be started the case is recorded
\* as failed and the run goes on with the next case: a statement that was
\* to start the Session of a case and started none records a failure word
\* for the case and returns to the head of the loop
C20_LaunchErrorRecorded ==
    [][(/\ prog = "unix_core"
        /\ pc = "spawn"
        /\ Len(launched') = Len(launched))
       => (/\ pc' = "loop"
           /\ outcomes' # outcomes
           /\ outcomes'[Len(outcomes')][1] = cur
           /\ outcomes'[Len(outcomes')][2] \in FailedWords)]_vars

\* C21: the blank lines and the lines of a manifest that start with '#'
\* never become cases: in baremetal-core-tests.py no such entry is in the
\* run set and no Session is started for one, and in core-tests.py the test
\* filter handed to the Session holds no empty entry and no entry that
\* starts with '#'
C21_NoBlankOrCommentCase ==
    /\ prog = "baremetal_core" =>
          \A c \in check_case \cup Range(launched) :
             c # <<>> /\ ~StartsWith(c, <<"#">>)
    /\ prog = "core" /\ launched # <<>> =>
          \A k \in 1..Len(Split(launched[1], ",")) :
             /\ Split(launched[1], ",")[k] # <<>>
             /\ ~StartsWith(Split(launched[1], ",")[k], <<"#">>)

RECURSIVE UpToWhitespace(_)
\* s up to its first whitespace character
UpToWhitespace(s) ==
    IF s = <<>> \/ Head(s) \in Whitespace THEN <<>>
    ELSE <<Head(s)>> \o UpToWhitespace(Tail(s))

\* the first token of a result line after its marker
FirstToken(line) == UpToWhitespace(LStrip(Drop(line, Len(OkMarker))))

\* C22: the classification gives Passed to key K exactly when a line of
\* the log, its control sequences removed, begins with the success marker
\* and its first token after the marker, up to the first whitespace, is K;
\* it gives Failed exactly for the lines that begin with the failure marker
\* and end with the closing parenthesis, and every other line changes
\* nothing.
C22_ClassifyByMarkers ==
    pc = "verdict" =>
       LET ls == CleanLines(outFile)
           ok == {k \in 1..Len(ls) : StartsWith(ls[k], OkMarker)}
           bad == {k \in 1..Len(ls) :
                     /\ StartsWith(ls[k], FailedMarker)
                     /\ EndsWith(RStrip(ls[k]), <<")">>)}
       IN  /\ passed = {FirstToken(ls[k]) : k \in ok}
           /\ prog = "baremetal_core" =>
                 failed = {FirstToken(ls[k]) : k \in bad}
           /\ Len(passedTxt) = Len(Concat([k \in 1..Len(ls) |->
                                   IF k \in ok THEN ls[k] ELSE <<>>]))
           /\ Len(failedTxt) = Len(Concat([k \in 1..Len(ls) |->
                                   IF k \in bad THEN ls[k] ELSE <<>>]))

\* terminal control sequences: the two colour sequences, reverse index
\* (ESC M) and the selection of the ASCII character set (ESC ( B)
ControlSeqs == {ColourOn, ColourOff, <<Esc, "M">>, <<Esc, "(", "B">>}

\* position j of a chunk lies between two characters of a control sequence
\* the chunk holds
InsideSequence(chunk, j) ==
    \E q \in ControlSeqs : \E at \in Occurrences(chunk, q) :
       at <= j /\ j < at + Len(q) - 1

\* the log with control sequence q inserted after the first j characters of
\* its i-th chunk
WithSequence(chunks, i, j, q) ==
    [chunks EXCEPT ![i] = SubSeq(@, 1, j) \o q \o Drop(@, j)]

\* whether the log with a control sequence of set seqs inserted at any one
\* place has the passed and failed keys of the log itself
SameWithAny(seqs) ==
    \A q \in seqs : \A i \in 1..Len(outFile) :
       \A j \in 0..Len(outFile[i]) :
          ~InsideSequence(outFile[i], j) =>
             /\ PassedCase(WithSequence(outFile, i, j, q))
                   = PassedCase(outFile)
             /\ FailedCase(WithSequence(outFile, i, j, q))
                   = FailedCase(outFile)

\* C23, as far as it holds: the classification is a function of the text
\* of the log, and the colour sequences are removed before the lines are
\* matched: the sets are those of the log in the output file, and a log
\* that differs from it by one inserted colour sequence has the same passed
\* and failed keys
C23_ColourSequencesIgnored ==
    pc = "verdict" =>
       /\ passed = PassedCase(outFile)
       /\ prog = "baremetal_core" => failed = FailedCase(outFile)
       /\ SameWithAny({ColourOn, ColourOff})

\* a coloured pass line and a failure line have been classified
C23_Witness ==
    /\ prog = "baremetal_core"
    /\ pc = "verdict"
    /\ outFile = <<ColourOn \o OkMarker \o ColourOff \o <<" ">> \o KeyB
                     \o <<" ", "(", "1", ")", "\n">>,
                   FailedLine(KeyA)>>
    /\ passed = {KeyB}
    /\ failed = {KeyA}

\* C23 as stated: a log that differs by one inserted terminal control
\* sequence, of any kind, has the same passed and failed keys
C23_ControlSequencesIgnored ==
    pc = "verdict" => SameWithAny(ControlSeqs)

\* the lines of the document that start with the cmdline marker
CmdlineLines(doc) ==
    SelectSeq(SplitLines(doc), LAMBDA l : StartsWith(l, Cmdline))

\* the ':'-separated fields of the cmdline line: the case field is the last
\* field but one (what follows the last ':' ends the line and is not looked
\* at here), the fields before it are the marker and the other fields
CmdlineFields(doc) == Split(CmdlineLines(doc)[1], ":")
CaseField(doc) == CmdlineFields(doc)[Len(CmdlineFields(doc)) - 1]
LeadFields(doc) == SubSeq(CmdlineFields(doc), 1, Len(CmdlineFields(doc)) - 2)

PrintedTexts ==
    {Label(w) : w \in {"FINISHED", "PANICKED", "EOF", "TIMEOUT",
                       "=== Failed cases ===", "All checked case passed!"}}

\* how often chunk x was delivered to a sink
Delivered(sink, x) == Cardinality({i \in 1..Len(sink) : sink[i] = x})

\* C25: in a run of baremetal-core-tests.py or unix-core-tests.py every
\* chunk logged by a Session reaches the output file as often as the live
\* echo, once for every time it was logged, however many Tee objects the
\* earlier cases created
C25_TeeDeliversOnce ==
    prog \in {"baremetal_core", "unix_core"} =>
       \A x \in (Range(outFile) \cup Range(echo)) \ PrintedTexts :
          Delivered(outFile, x) = Delivered(echo, x)

\* C26: in the serial runner a command is added to passed only if the
\* receiver thread read a shell prompt from the device after the command
\* was written to the port; what was appended to TMP_FILE before the
\* command was written does not decide the outcome
C26_PassedByOwnPrompt ==
    [][(/\ prog = "d1"
        /\ pc = "poll"
        /\ cur \in passed')
       => (\E i \in 1..Len(SinceLastSend) : HasPrompt(SinceLastSend[i]))]_vars



\* the runs of a log: a run starts at every RUN line and ends with the first
\* result line after it, before the next RUN line, or with the log
StatClean(lines) == [i \in 1..Len(lines) |-> StripAnsi(lines[i])]
IsRunLine(line) == StartsWith(line, RunMarker)
IsResultLine(line, marker) ==
    StartsWith(line, marker) /\ EndsWith(line, <<")", "\n">>)
RunStarts(lines) == {i \in 1..Len(lines) : IsRunLine(lines[i])}
\* the first line after i that closes the run started at i, Len + 1 if none
RunClose(lines, i) ==
    LET closing == {j \in (i + 1)..Len(lines) :
                      \/ IsRunLine(lines[j])
                      \/ IsResultLine(lines[j], OkMarker)
                      \/ IsResultLine(lines[j], FailedMarker)}
    IN  IF closing = {} THEN Len(lines) + 1
        ELSE CHOOSE j \in closing : \A k \in closing : j <= k
RunEndedOk(lines, i) ==
    /\ RunClose(lines, i) <= Len(lines)
    /\ IsResultLine(lines[RunClose(lines, i)], OkMarker)
\* the lines of the run started at i: its result line belongs to it, the
\* RUN line of the next run does not
RunOwnLines(lines, i) ==
    LET j == RunClose(lines, i)
    IN  IF j <= Len(lines) /\ ~IsRunLine(lines[j])
        THEN SubSeq(lines, i, j) ELSE SubSeq(lines, i, j - 1)
NotOkRuns(lines) == {i \in RunStarts(lines) : ~RunEndedOk(lines, i)}

\* C27: the keys of the need-to-fix dictionary are exactly the cases with a
\* run that did not end with an OK line (it ended with a FAILED line, or
\* was cut off by the next RUN line or by the end of the log), and every
\* entry holds the lines of a run of its case.
C27_NeedToFixKeys ==
    pc = "done" /\ prog = "statistic" =>
       LET lines == StatClean(outFile)
           dic == NeedToFix(outFile)
       IN  /\ {dic[n][1] : n \in 1..Len(dic)}
                = {StatKey(lines[i]) : i \in NotOkRuns(lines)}
           /\ \A n \in 1..Len(dic) :
                 \E i \in NotOkRuns(lines) :
                    /\ StatKey(lines[i]) = dic[n][1]
                    /\ dic[n][2] = RunOwnLines(lines, i)
           /\ resultFile = StatisticText(dic)
====
